---- MODULE Spec2Model ----
(***************************************************************************)
(* Model of the Monitoring demo: the alert webhook receiver                *)
(* (remediation_scripts/alert_webhook.py) and the metrics-instrumented     *)
(* order API (app.py).                                                     *)
(***************************************************************************)
EXTENDS Integers, Sequences, FiniteSets, Bags, TLC

\* ------------------------------------------------------------------ bounds
\* Longest alert batch a webhook request carries.
MaxBatch == 2
\* The alert log is append-only; requests are accepted while it has room.
MaxLog == 2

\* A key that a JSON object does not carry (dict.get falls back to its default).
Absent == "<absent>"

(***************************************************************************)
(*                    Alert webhook receiver (port 5001)                   *)
(***************************************************************************)
VARIABLES
  alertLog,      \* lines of /var/log/alerts.log, oldest first
  invocations,   \* subprocess.run calls made so far, oldest first
  whRequest,     \* body of the webhook request handled last
  whResponse     \* response handle_alert gave to it

whVars == <<alertLog, invocations, whRequest, whResponse>>

VARIABLES
  orders,               \* the module-level list of orders
  active_connections,   \* the module-level counter
  ACTIVE_CONNECTIONS,   \* value last set on the gauge
  REQUEST_COUNT,        \* bag of <<method, endpoint, status>> labels
  REQUEST_DURATION,     \* bag of <<method, endpoint>> observations
  ERROR_COUNT,          \* bag of <<method, endpoint, status>> labels
  ORDER_COUNT,          \* orders-created counter
  sysUpdates,           \* calls of update_system_metrics made so far
  clock,                \* time.time() as read by create_order
  nRequests,            \* requests that entered the wrapper so far
  raced,                \* history: two threads held a built, unappended order at once
  pc,                   \* per thread: where it is in decorated_function
  req,                  \* per thread: the request it handles
  tmp,                  \* per thread: value loaded by active_connections +=/-= 1
  order,                \* per thread: the local dict built by create_order
  ret                   \* per thread: what f returned (or that it raised), then
                        \* what decorated_function returns

apiVars == <<orders, active_connections, ACTIVE_CONNECTIONS, REQUEST_COUNT,
             REQUEST_DURATION, ERROR_COUNT, ORDER_COUNT, sysUpdates, clock,
             nRequests, raced, pc, req, tmp, order, ret>>

vars == <<whVars, apiVars>>

AlertNames == {"HighMemoryUsage", "HighDiskUsage", "AppDown", "HighCPUUsage"}
AlertStatuses == {"firing", "resolved"}

\* An element of the "alerts" array. obj = FALSE is an element alert.get cannot
\* be called on, or whose "labels" is not an object.
AlertObjects ==
  [obj : {TRUE}, alertname : AlertNames \cup {Absent}, status : AlertStatuses \cup {Absent}]
    \cup {[obj |-> FALSE, alertname |-> Absent, status |-> Absent]}

\* How an external command ends: exit 0, non-zero exit (CalledProcessError with
\* check=True), or the executable cannot be started (FileNotFoundError/OSError).
Outcomes == {"exit0", "nonzero", "nostart"}

NoCommand == "none"
DockerRestart == "docker restart flask-observability-app"
CleanupDisk == "bash /app/remediation_scripts/cleanup_disk.sh"

\* alert.get('labels', {}).get('alertname', 'Unknown')
AlertName(alert) == IF alert.alertname = Absent THEN "Unknown" ELSE alert.alertname

\* alert.get('status', 'unknown')
AlertStatus(alert) == IF alert.status = Absent THEN "unknown" ELSE alert.status

\* The log_entry written for one alert (timestamp left out, labels and
\* annotations are copied through unchanged).
LogEntry(alert) == [alert |-> AlertName(alert), status |-> AlertStatus(alert)]

\* Faulty variant: the table without the status == 'firing' test.
RemediationIgnoringStatus(status, alert_name) ==
  CASE alert_name = "HighMemoryUsage" -> DockerRestart
    [] alert_name = "HighDiskUsage" -> CleanupDisk
    [] alert_name = "AppDown" -> DockerRestart
    [] OTHER -> NoCommand

\* The if/elif chain that picks the command to run for one alert.
Remediation(status, alert_name) ==
  IF status = "firing"
  THEN CASE alert_name = "HighMemoryUsage" -> DockerRestart
         [] alert_name = "HighDiskUsage" -> CleanupDisk
         [] alert_name = "AppDown" -> DockerRestart
         [] OTHER -> NoCommand
  ELSE NoCommand

\* The for loop of handle_alert from alert i on: log, then remediate. raised is
\* TRUE when an exception left the loop (it is caught by the outer except).
RECURSIVE IterateAlerts(_, _, _, _, _)
IterateAlerts(alerts, outcomes, i, log, inv) ==
  IF i > Len(alerts)
  THEN [log |-> log, inv |-> inv, raised |-> FALSE]
  ELSE IF ~alerts[i].obj
  THEN [log |-> log, inv |-> inv, raised |-> TRUE]
  ELSE LET log2 == Append(log, LogEntry(alerts[i]))
           cmd == Remediation(AlertStatus(alerts[i]), AlertName(alerts[i]))
           inv2 == Append(inv, [cmd |-> cmd, outcome |-> outcomes[i]])
       IN  IF cmd = NoCommand
           THEN IterateAlerts(alerts, outcomes, i + 1, log2, inv)
           ELSE IF outcomes[i] = "nostart"
           THEN [log |-> log2, inv |-> inv2, raised |-> TRUE]
           ELSE IterateAlerts(alerts, outcomes, i + 1, log2, inv2)

\* Faulty variant: get_json(silent=True) with an empty object as fallback.
GetJsonNeverRaises(body) == FALSE

\* request.get_json() raises on a body that is not valid JSON.
GetJsonRaises(body) == body.kind = "invalid"

\* The try block of handle_alert on a request body.
RunBatch(body, log, inv) ==
  IF GetJsonRaises(body) \/ body.kind \in {"nonobject", "alertsnull"}
  THEN [log |-> log, inv |-> inv, raised |-> TRUE]
  ELSE IF body.kind = "noalerts"
  THEN [log |-> log, inv |-> inv, raised |-> FALSE]
  ELSE IterateAlerts(body.alerts, body.outcomes, 1, log, inv)

WhSuccess == [code |-> 200, body |-> "status: success"]
WhError == [code |-> 500, body |-> "error"]

\* Outcomes are drawn only for the alerts that run a command.
BatchOutcomes(alerts) ==
  {o \in [1..Len(alerts) -> Outcomes] :
     \A i \in 1..Len(alerts) :
       (~alerts[i].obj \/ Remediation(AlertStatus(alerts[i]), AlertName(alerts[i])) = NoCommand)
         => o[i] = "exit0"}

\* Lists of n alerts. The loop stops at an element it cannot read and never
\* looks at what follows it, so such an element is drawn in the last place only.
AlertLists(n) ==
  {a \in [1..n -> AlertObjects] : \A i \in 1..(n - 1) : a[i].obj}

Batch(alerts, outcomes) == [kind |-> "batch", alerts |-> alerts, outcomes |-> outcomes]

OtherBodies ==
  {[kind |-> k, alerts |-> <<>>, outcomes |-> <<>>] :
     k \in {"invalid", "nonobject", "alertsnull", "noalerts"}}

Min(a, b) == IF a < b THEN a ELSE b

\* POST /webhook
handle_alert(body) ==
  LET r == RunBatch(body, alertLog, invocations)
  IN  /\ whRequest' = body
      /\ alertLog' = r.log
      /\ invocations' = r.inv
      /\ whResponse' = IF r.raised THEN WhError ELSE WhSuccess
      /\ UNCHANGED apiVars

\* A body that carries a list of alerts.
WebhookBatch ==
  \E n \in 0..Min(MaxBatch, MaxLog - Len(alertLog)) :
    \E alerts \in AlertLists(n) :
      \E outcomes \in BatchOutcomes(alerts) : handle_alert(Batch(alerts, outcomes))

\* Any other body.
WebhookOther == \E body \in OtherBodies : handle_alert(body)

(***************************************************************************)
(*                 Metrics-instrumented order API (port 5000)              *)
(***************************************************************************)
\* Worker threads of the server, one request each at a time.
Threads == {1, 2}


\* ------------------------------------------------------------ requests
OrderKeys == {"product", "quantity", "price"}

\* JSON objects posted to /api/orders: the keys present and their values.
OrderObjects ==
  {[kind |-> "object", keys |-> ks, product |-> "Widget", quantity |-> 2, price |-> 5] :
     ks \in {{}, OrderKeys}}

\* Bodies that are not a JSON object: get_json raises ("invalid"), or returns a
\* value without .get (None for a non-JSON content type, a list, a number).
OrderNonObjects ==
  {[kind |-> k, keys |-> {}, product |-> "Widget", quantity |-> 2, price |-> 5] :
     k \in {"invalid", "nonobject"}}

NoBody == [kind |-> "none", keys |-> {}, product |-> "Widget", quantity |-> 2, price |-> 5]

\* Largest order id asked of GET /api/orders/<id>.
MaxOrderId == 2

Request(method, endpoint, body, order_id, arg) ==
  [method |-> method, endpoint |-> endpoint, body |-> body, order_id |-> order_id, arg |-> arg]

Requests ==
  {Request("GET", e, NoBody, 0, Absent) : e \in {"health_check", "get_orders", "index"}}
    \cup {Request("POST", "create_order", b, 0, Absent) : b \in OrderObjects \cup OrderNonObjects}
    \cup {Request("GET", "get_order", NoBody, i, Absent) : i \in 1..MaxOrderId}
    \cup {Request("GET", "simulate_error", NoBody, 0, a) : a \in {Absent, "client", "server", "other"}}
    \cup {Request("GET", "simulate_slow", NoBody, 0, a) : a \in {Absent, "0.5", "-1", "abc"}}
    \cup {Request("GET", "memory_stress", NoBody, 0, a) : a \in {Absent, "1", "abc"}}

NoRequest == Request("GET", "none", NoBody, 0, Absent)

\* ------------------------------------------------------------ responses
\* jsonify(...) alone: a Response object, status_code 200.
Response(body) == [kind |-> "response", code |-> 200, body |-> body]
\* jsonify(...), code: a (body, status) tuple.
Pair(body, code) == [kind |-> "tuple", code |-> code, body |-> body]
\* f raised instead of returning.
Raised == [kind |-> "raise", code |-> 0, body |-> [tag |-> "exception", val |-> <<>>]]
NoReturn == [kind |-> "none", code |-> 0, body |-> [tag |-> "none", val |-> <<>>]]

ErrorBody(msg) == [tag |-> "error", val |-> <<msg>>]
JsonBody(val) == [tag |-> "json", val |-> <<val>>]

\* The status Flask sends for a view's return value.
HttpStatus(r) == r.code

\* getattr(response, 'status_code', 200): a tuple has no such attribute.
StatusCodeAttr(response) ==
  IF response.kind = "response" THEN response.code ELSE 200

\* request.endpoint or 'unknown'
EndpointLabel(r) == IF r.endpoint = "none" THEN "unknown" ELSE r.endpoint

Inc(counter, label) == counter (+) SetToBag({label})

\* dict.get(key, default)
DictGet(d, key, default) == IF key \in d.keys THEN d[key] ELSE default

\* request.args.get(name, default) is the string given, or the default.
\* float(...): the parsed value in tenths of a second, or a ValueError.
ParseFloat(arg) ==
  CASE arg = Absent -> [ok |-> TRUE, val |-> 20]
    [] arg = "0.5" -> [ok |-> TRUE, val |-> 5]
    [] arg = "-1" -> [ok |-> TRUE, val |-> -10]
    [] OTHER -> [ok |-> FALSE, val |-> 0]

\* int(...): the parsed value, or a ValueError.
ParseInt(arg) ==
  CASE arg = Absent -> [ok |-> TRUE, val |-> 100]
    [] arg = "1" -> [ok |-> TRUE, val |-> 1]
    [] OTHER -> [ok |-> FALSE, val |-> 0]

\* ------------------------------------------------------------ bounds
\* Requests served when they are handled one at a time.
MaxRequests == 3
\* Requests served when the worker threads run concurrently.
MaxConcRequests == 2

\* ------------------------------------------------------------ handlers
NoOrder == [id |-> 0, product |-> "", quantity |-> 0, price |-> 0, timestamp |-> 0]

\* Faulty variant: an id that does not depend on the list.
NewOrderIdConstant(n) == 1

\* Faulty variant: len(orders) without the + 1.
NewOrderIdZeroBased(n) == n

\* "id": len(orders) + 1
NewOrderId(n) == n + 1

\* The order dict create_order builds from the posted object.
BuildOrder(data, n, now) ==
  [id |-> NewOrderId(n),
   product |-> DictGet(data, "product", "Unknown"),
   quantity |-> DictGet(data, "quantity", 1),
   price |-> DictGet(data, "price", 0),
   timestamp |-> now]

\* Faulty variant: orders[order_id], the id used as a list index.
FindOrderByIndex(list, order_id) ==
  IF order_id + 1 \in 1..Len(list) THEN <<list[order_id + 1]>> ELSE <<>>

\* next((o for o in orders if o['id'] == order_id), None): the first match, as a
\* sequence of length 1, or the empty sequence for None.
FindOrder(list, order_id) ==
  LET hits == {k \in 1..Len(list) : list[k].id = order_id}
  IN  IF hits = {} THEN <<>>
      ELSE <<list[CHOOSE k \in hits : \A j \in hits : k <= j]>>

\* A step of thread t that leaves f with return value r.
Return(t, r) ==
  /\ ret' = [ret EXCEPT ![t] = r]
  /\ pc' = [pc EXCEPT ![t] = "handled"]

Running(t, endpoint) == pc[t] = "handler" /\ req[t].endpoint = endpoint

\* What no view function touches: the wrapper's state and the other service.
HandlerFrame ==
  UNCHANGED <<active_connections, ACTIVE_CONNECTIONS, REQUEST_COUNT, REQUEST_DURATION,
              ERROR_COUNT, sysUpdates, nRequests, req, tmp, whVars>>

health_check(t) ==
  /\ Running(t, "health_check")
  /\ Return(t, Response(JsonBody("healthy")))
  /\ UNCHANGED <<orders, ORDER_COUNT, clock, raced, order>>
  /\ HandlerFrame

index(t) ==
  /\ Running(t, "index")
  /\ Return(t, Response(JsonBody("Flask Observability App")))
  /\ UNCHANGED <<orders, ORDER_COUNT, clock, raced, order>>
  /\ HandlerFrame

get_orders(t) ==
  /\ Running(t, "get_orders")
  /\ Return(t, Response([tag |-> "orders", val |-> orders]))
  /\ UNCHANGED <<orders, ORDER_COUNT, clock, raced, order>>
  /\ HandlerFrame

get_order(t) ==
  /\ Running(t, "get_order")
  /\ LET found == FindOrder(orders, req[t].order_id)
     IN  Return(t, IF found = <<>>
                   THEN Pair(ErrorBody("Order not found"), 404)
                   ELSE Response([tag |-> "order", val |-> found]))
  /\ UNCHANGED <<orders, ORDER_COUNT, clock, raced, order>>
  /\ HandlerFrame

simulate_error(t) ==
  /\ Running(t, "simulate_error")
  /\ LET error_type == IF req[t].arg = Absent THEN "server" ELSE req[t].arg
     IN  Return(t, CASE error_type = "client" -> Pair(ErrorBody("Bad request simulation"), 400)
                     [] error_type = "server" -> Pair(ErrorBody("Internal server error simulation"), 500)
                     [] OTHER -> Pair(ErrorBody("Not found simulation"), 404))
  /\ UNCHANGED <<orders, ORDER_COUNT, clock, raced, order>>
  /\ HandlerFrame

\* float() and time.sleep() raise ValueError on an unparsable or negative delay.
simulate_slow(t) ==
  /\ Running(t, "simulate_slow")
  /\ LET delay == ParseFloat(req[t].arg)
     IN  Return(t, IF ~delay.ok \/ delay.val < 0
                   THEN Raised
                   ELSE Response(JsonBody(delay.val)))
  /\ UNCHANGED <<orders, ORDER_COUNT, clock, raced, order>>
  /\ HandlerFrame

memory_stress(t) ==
  /\ Running(t, "memory_stress")
  /\ LET size == ParseInt(req[t].arg)
     IN  Return(t, IF ~size.ok
                   THEN Raised
                   ELSE Response(JsonBody(IF size.val > 0 THEN size.val * 1024 * 1024 ELSE 0)))
  /\ UNCHANGED <<orders, ORDER_COUNT, clock, raced, order>>
  /\ HandlerFrame

\* create_order, lines 134-141: get_json, the sleep, the 10% failure.
create_order_parse(t) ==
  /\ Running(t, "create_order")
  /\ IF req[t].body.kind = "invalid"
     THEN Return(t, Pair(ErrorBody("Invalid order data"), 400))
     ELSE \E fail \in BOOLEAN :
            IF fail
            THEN Return(t, Pair(ErrorBody("Order processing failed"), 500))
            ELSE /\ pc' = [pc EXCEPT ![t] = "build"]
                 /\ ret' = ret
  /\ UNCHANGED <<orders, ORDER_COUNT, clock, raced, order>>
  /\ HandlerFrame

\* create_order, lines 144-150: the dict literal reads len(orders); data.get
\* raises AttributeError when data is not an object.
create_order_build(t) ==
  /\ pc[t] = "build"
  /\ IF req[t].body.kind # "object"
     THEN /\ Return(t, Pair(ErrorBody("Invalid order data"), 400))
          /\ UNCHANGED <<clock, raced, order>>
     ELSE /\ order' = [order EXCEPT ![t] = BuildOrder(req[t].body, Len(orders), clock)]
          /\ clock' = clock + 1
          /\ raced' = (raced \/ \E u \in Threads \ {t} : pc[u] = "append")
          /\ pc' = [pc EXCEPT ![t] = "append"]
          /\ ret' = ret
  /\ UNCHANGED <<orders, ORDER_COUNT>>
  /\ HandlerFrame

\* create_order, lines 152-157: orders.append(order), ORDER_COUNT.inc(), 201.
create_order_append(t) ==
  /\ pc[t] = "append"
  /\ orders' = Append(orders, order[t])
  /\ ORDER_COUNT' = ORDER_COUNT + 1
  /\ Return(t, Pair([tag |-> "order", val |-> <<order[t]>>], 201))
  /\ UNCHANGED <<clock, raced, order>>
  /\ HandlerFrame

\* ------------------------------------------------- metrics_middleware
\* Line 45 and the entry of the try block: a worker thread takes a request.
Begin(t, limit) ==
  /\ pc[t] = "idle"
  /\ nRequests < limit
  /\ \E r \in Requests : req' = [req EXCEPT ![t] = r]
  /\ nRequests' = nRequests + 1
  /\ pc' = [pc EXCEPT ![t] = "inc_read"]
  /\ UNCHANGED <<whVars, orders, active_connections, ACTIVE_CONNECTIONS, REQUEST_COUNT,
                 REQUEST_DURATION, ERROR_COUNT, ORDER_COUNT, sysUpdates, clock,
                 raced, tmp, order, ret>>

\* active_connections += 1 and -= 1 each load the global, then store it (the
\* loaded value is dead once stored).
LoadCounter(t, at, next) ==
  /\ pc[t] = at
  /\ tmp' = [tmp EXCEPT ![t] = active_connections]
  /\ pc' = [pc EXCEPT ![t] = next]
  /\ UNCHANGED <<whVars, orders, active_connections, ACTIVE_CONNECTIONS, REQUEST_COUNT,
                 REQUEST_DURATION, ERROR_COUNT, ORDER_COUNT, sysUpdates, clock,
                 nRequests, raced, req, order, ret>>

StoreCounter(t, at, next, delta) ==
  /\ pc[t] = at
  /\ active_connections' = tmp[t] + delta
  /\ tmp' = [tmp EXCEPT ![t] = 0]
  /\ pc' = [pc EXCEPT ![t] = next]
  /\ UNCHANGED <<whVars, orders, ACTIVE_CONNECTIONS, REQUEST_COUNT, REQUEST_DURATION,
                 ERROR_COUNT, ORDER_COUNT, sysUpdates, clock, nRequests, raced,
                 req, order, ret>>

\* ACTIVE_CONNECTIONS.set(active_connections)
SetGauge(t, at, next) ==
  /\ pc[t] = at
  /\ ACTIVE_CONNECTIONS' = active_connections
  /\ pc' = [pc EXCEPT ![t] = next]
  /\ UNCHANGED <<whVars, orders, active_connections, REQUEST_COUNT, REQUEST_DURATION,
                 ERROR_COUNT, ORDER_COUNT, sysUpdates, clock, nRequests, raced,
                 req, tmp, order, ret>>

\* Lines 50-51.
IncLoad(t) == LoadCounter(t, "inc_read", "inc_write")
IncStore(t) == StoreCounter(t, "inc_write", "gauge_in", 1)
IncGauge(t) == SetGauge(t, "gauge_in", "handler")

\* Lines 57-79: f returned; count the request, its duration and its error.
Record(t) ==
  /\ pc[t] = "handled"
  /\ ret[t].kind \in {"response", "tuple"}
  /\ LET status_code == StatusCodeAttr(ret[t])
         label == <<req[t].method, EndpointLabel(req[t]), status_code>>
     IN  /\ REQUEST_COUNT' = Inc(REQUEST_COUNT, label)
         /\ REQUEST_DURATION' = Inc(REQUEST_DURATION, <<req[t].method, EndpointLabel(req[t])>>)
         /\ ERROR_COUNT' = IF status_code >= 400 THEN Inc(ERROR_COUNT, label) ELSE ERROR_COUNT
  /\ pc' = [pc EXCEPT ![t] = "dec_read"]
  /\ UNCHANGED <<whVars, orders, active_connections, ACTIVE_CONNECTIONS, ORDER_COUNT,
                 sysUpdates, clock, nRequests, raced, req, tmp, order, ret>>

\* Faulty variant: the decrement inside the try block, skipped after a fault.
FinallySkipped == "sysmetrics"

\* The finally clause runs after the except clause too.
AfterExcept == "dec_read"

\* Lines 81-90: f raised; count an error with status 500 and answer 500.
Except(t) ==
  /\ pc[t] = "handled"
  /\ ret[t].kind = "raise"
  /\ ERROR_COUNT' = Inc(ERROR_COUNT, <<req[t].method, EndpointLabel(req[t]), 500>>)
  /\ ret' = [ret EXCEPT ![t] = Pair(ErrorBody("Internal server error"), 500)]
  /\ pc' = [pc EXCEPT ![t] = AfterExcept]
  /\ UNCHANGED <<whVars, orders, active_connections, ACTIVE_CONNECTIONS, REQUEST_COUNT,
                 REQUEST_DURATION, ORDER_COUNT, sysUpdates, clock, nRequests,
                 raced, req, tmp, order>>

\* Lines 94-95.
DecLoad(t) == LoadCounter(t, "dec_read", "dec_write")
DecStore(t) == StoreCounter(t, "dec_write", "gauge_out", -1)
DecGauge(t) == SetGauge(t, "gauge_out", "sysmetrics")

\* Line 98, then decorated_function returns and the thread is free again.
UpdateSystemMetrics(t) ==
  /\ pc[t] = "sysmetrics"
  /\ sysUpdates' = sysUpdates + 1
  /\ pc' = [pc EXCEPT ![t] = "idle"]
  /\ req' = [req EXCEPT ![t] = NoRequest]
  /\ ret' = [ret EXCEPT ![t] = NoReturn]
  /\ order' = [order EXCEPT ![t] = NoOrder]
  /\ UNCHANGED <<whVars, orders, active_connections, ACTIVE_CONNECTIONS, REQUEST_COUNT,
                 REQUEST_DURATION, ERROR_COUNT, ORDER_COUNT, clock, nRequests, raced, tmp>>

\* Every step of decorated_function after the request was taken.
Step(t) ==
  \/ IncLoad(t) \/ IncStore(t) \/ IncGauge(t)
  \/ health_check(t) \/ index(t) \/ get_orders(t) \/ get_order(t)
  \/ simulate_error(t) \/ simulate_slow(t) \/ memory_stress(t)
  \/ create_order_parse(t) \/ create_order_build(t) \/ create_order_append(t)
  \/ Record(t) \/ Except(t)
  \/ DecLoad(t) \/ DecStore(t) \/ DecGauge(t)
  \/ UpdateSystemMetrics(t)

Quiet == \A t \in Threads : pc[t] = "idle"

\* A request is taken only when no other is in flight.
BeginSequential(t) == Quiet /\ Begin(t, MaxRequests)

\* A request is taken whenever a thread is free.
BeginConcurrent(t) == Begin(t, MaxConcRequests)

InitApi ==
  /\ orders = <<>>
  /\ active_connections = 0
  /\ ACTIVE_CONNECTIONS = 0
  /\ REQUEST_COUNT = EmptyBag
  /\ REQUEST_DURATION = EmptyBag
  /\ ERROR_COUNT = EmptyBag
  /\ ORDER_COUNT = 0
  /\ sysUpdates = 0
  /\ clock = 0
  /\ nRequests = 0
  /\ raced = FALSE
  /\ pc = [t \in Threads |-> "idle"]
  /\ req = [t \in Threads |-> NoRequest]
  /\ tmp = [t \in Threads |-> 0]
  /\ order = [t \in Threads |-> NoOrder]
  /\ ret = [t \in Threads |-> NoReturn]

InitWebhook ==
  /\ alertLog = <<>>
  /\ invocations = <<>>
  /\ whRequest = [kind |-> "noalerts", alerts |-> <<>>, outcomes |-> <<>>]
  /\ whResponse = [code |-> 0, body |-> "none"]

\* ------------------------------------------------------ specifications
Init == InitWebhook /\ InitApi

NextWebhook == WebhookBatch \/ WebhookOther

NextSequential == \E t \in Threads : BeginSequential(t) \/ Step(t)

NextConcurrent == \E t \in Threads : BeginConcurrent(t) \/ Step(t)

\* The webhook receiver.
SpecWebhook == Init /\ [][NextWebhook]_vars

\* The API with requests handled one at a time.
SpecSequential == Init /\ [][NextSequential]_vars

\* The API with the worker threads interleaving freely.
SpecConcurrent == Init /\ [][NextConcurrent]_vars

(***************************************************************************)
(*                               Properties                                *)
(***************************************************************************)
\* The body is an object whose "alerts" is a list of alert objects.
ParsedBatch(body) ==
  body.kind = "batch" /\ \A i \in 1..Len(body.alerts) : body.alerts[i].obj

\* Every command the batch runs ends, with exit status zero or not.
CommandsComplete(body) ==
  \A i \in 1..Len(body.outcomes) : body.outcomes[i] # "nostart"

\* The remediation table of the specification, section 4.3.
TableCommand(alert) ==
  IF alert.status = "firing" /\ alert.alertname \in {"HighMemoryUsage", "HighDiskUsage", "AppDown"}
  THEN IF alert.alertname = "HighDiskUsage" THEN CleanupDisk ELSE DockerRestart
  ELSE NoCommand

RECURSIVE TableCalls(_, _)
TableCalls(body, i) ==
  IF i > Len(body.alerts) THEN <<>>
  ELSE (IF TableCommand(body.alerts[i]) = NoCommand THEN <<>>
        ELSE <<[cmd |-> TableCommand(body.alerts[i]), outcome |-> body.outcomes[i]]>>)
       \o TableCalls(body, i + 1)

\* C1: a batch that parses and whose commands complete adds one log line per
\* alert, in batch order, and runs exactly the commands of the table: one for
\* each firing HighMemoryUsage, HighDiskUsage or AppDown alert, none for any
\* other alert.
C1_LoggedAndDispatched ==
  [][(ParsedBatch(whRequest') /\ CommandsComplete(whRequest'))
       => /\ alertLog' = alertLog \o [i \in 1..Len(whRequest'.alerts) |-> LogEntry(whRequest'.alerts[i])]
          /\ invocations' = invocations \o TableCalls(whRequest', 1)]_vars

C1_Witness ==
  /\ ParsedBatch(whRequest) /\ CommandsComplete(whRequest)
  /\ Len(whRequest.alerts) = 2
  /\ whRequest.alerts[1] = [obj |-> TRUE, alertname |-> "HighDiskUsage", status |-> "firing"]
  /\ whRequest.alerts[2] = [obj |-> TRUE, alertname |-> "HighMemoryUsage", status |-> "resolved"]
  /\ whRequest.outcomes[1] = "nonzero"
  /\ Len(alertLog) = 2
  /\ invocations = <<[cmd |-> CleanupDisk, outcome |-> "nonzero"]>>
  /\ whResponse = WhSuccess

\* C2: a batch that parses is iterated to its end and answered 200
\* {status: success}, whatever the outcome of each remediation command, a
\* command that fails to start included.
C2_SuccessWhateverTheOutcome ==
  [][ParsedBatch(whRequest')
       => /\ whResponse' = WhSuccess
          /\ Len(alertLog') = Len(alertLog) + Len(whRequest'.alerts)]_vars

\* C6: a body that is not valid JSON is answered 500 with an error field, and
\* neither the alert log nor the commands run change.
C6_InvalidJsonRejected ==
  [][whRequest'.kind = "invalid"
       => /\ whResponse' = WhError
          /\ alertLog' = alertLog
          /\ invocations' = invocations]_vars

C6_Witness ==
  /\ whRequest.kind = "invalid"
  /\ whResponse = WhError
  /\ alertLog # <<>>
  /\ invocations # <<>>

\* decorated_function has f's outcome and is about to leave the try block.
Leaving(t) == pc[t] = "handled" /\ pc'[t] # "handled"

\* decorated_function is in its finally clause; ret[t] is what it returns.
Answered(t) == pc[t] \in {"dec_read", "dec_write", "gauge_out", "sysmetrics"}

\* C3: every request through the wrapper increments REQUEST_COUNT exactly
\* once, whether the handler returned normally, returned an error status or
\* raised: with no request in flight the counter totals the requests served.
C3_CountedOncePerRequest ==
  Quiet => BagCardinality(REQUEST_COUNT) = nRequests

\* C7: when the handler returns normally a response of HTTP status S, the
\* wrapper counts the request under (method, endpoint, S) and, when S >= 400,
\* counts an error under the same labels.
C7_LabelledByHttpStatus ==
  [][\A t \in Threads :
       (Leaving(t) /\ ret[t].kind \in {"response", "tuple"})
         => LET label == <<req[t].method, EndpointLabel(req[t]), HttpStatus(ret[t])>>
            IN  /\ REQUEST_COUNT' = Inc(REQUEST_COUNT, label)
                /\ HttpStatus(ret[t]) >= 400 => ERROR_COUNT' = Inc(ERROR_COUNT, label)]_vars

\* The request carries a client input error: a malformed order body, an
\* unknown order id, or a delay or size that is not a number.
ClientInputError(r) ==
  \/ r.endpoint = "create_order" /\ r.body.kind \in {"invalid", "nonobject"}
  \/ r.endpoint = "get_order" /\ \A k \in 1..Len(orders) : orders[k].id # r.order_id
  \/ r.endpoint = "simulate_slow" /\ ~ParseFloat(r.arg).ok
  \/ r.endpoint = "memory_stress" /\ ~ParseInt(r.arg).ok

\* C8: a request with a client input error is answered 4xx with an error
\* body, never 5xx.
C8_ClientErrorsAre4xx ==
  \A t \in Threads :
    (Answered(t) /\ ClientInputError(req[t]))
      => HttpStatus(ret[t]) \in 400..499 /\ ret[t].body.tag = "error"

IdsContiguous == \A k \in 1..Len(orders) : orders[k].id = k

\* The threads whose create_order returns 201 in this step.
Creating == {t \in Threads : pc[t] # "handled" /\ pc'[t] = "handled"
                              /\ req[t].endpoint = "create_order" /\ HttpStatus(ret'[t]) = 201}

\* C4: with requests handled one at a time the k-th order has id k; a
\* create_order that returns 201 appends exactly one order, the order it
\* returns, and every other step leaves the list unchanged, so N successful
\* creations leave N orders.
C4_ContiguousIds ==
  /\ [](IdsContiguous /\ (Quiet => Len(orders) = ORDER_COUNT))
  /\ [][IF Creating # {}
        THEN \E t \in Creating : orders' = Append(orders, ret'[t].body.val[1])
        ELSE orders' = orders]_vars

C4_Witness ==
  /\ Quiet
  /\ Len(orders) = 2
  /\ orders[2].id = 2
  /\ CopiesIn(<<"POST", "create_order", 200>>, REQUEST_COUNT) = 3

\* C5: with requests handled one at a time get_order(id) returns, with status
\* 200, the one stored order of that id, and 404 with an error body when there
\* is none; it never changes the list, and a stored order never changes.
C5_GetOrderReturnsStored ==
  /\ [](\A t \in Threads :
          (pc[t] = "handled" /\ req[t].endpoint = "get_order")
            => LET hits == {k \in 1..Len(orders) : orders[k].id = req[t].order_id}
               IN  IF hits = {}
                   THEN HttpStatus(ret[t]) = 404 /\ ret[t].body.tag = "error"
                   ELSE /\ Cardinality(hits) = 1
                        /\ HttpStatus(ret[t]) = 200
                        /\ ret[t].body.tag = "order"
                        /\ \A k \in hits : ret[t].body.val = <<orders[k]>>)
  /\ [][/\ Len(orders') >= Len(orders)
        /\ \A k \in 1..Len(orders) : orders'[k] = orders[k]
        /\ (\E t \in Threads : Running(t, "get_order") /\ pc'[t] = "handled")
             => orders' = orders]_vars

C5_Witness ==
  \E t \in Threads :
    /\ pc[t] = "handled" /\ req[t].endpoint = "get_order" /\ req[t].order_id = 2
    /\ Len(orders) = 2
    /\ orders[1].product # orders[2].product
    /\ ret[t].body.tag = "order"

\* C9: with requests handled one at a time active_connections is never
\* negative, is 1 (and so is the gauge) while the handler runs, is back to 0
\* (and so is the gauge) once the wrapper has returned, on every path, and
\* update_system_metrics has then been called once per request.
C9_ConnectionsBalanced ==
  /\ active_connections >= 0
  /\ \A t \in Threads :
       pc[t] \in {"handler", "build", "append", "handled"}
         => active_connections = 1 /\ ACTIVE_CONNECTIONS = 1
  /\ Quiet => active_connections = 0 /\ ACTIVE_CONNECTIONS = 0 /\ sysUpdates = nRequests
  /\ ~Quiet => sysUpdates = nRequests - 1

C9_Witness ==
  /\ Quiet
  /\ nRequests = 3
  /\ CopiesIn(<<"GET", "simulate_slow", 500>>, ERROR_COUNT) = 1
  /\ CopiesIn(<<"GET", "simulate_error", 200>>, REQUEST_COUNT) = 1
  /\ CopiesIn(<<"GET", "health_check", 200>>, REQUEST_COUNT) = 1

DuplicateIds ==
  \E i, j \in 1..Len(orders) : i # j /\ orders[i].id = orders[j].id

\* C10: two stored orders carry the same id only when two create_order
\* requests overlapped, each having read len(orders) before the other
\* appended; and with the threads interleaving such a state is reached.
C10_DuplicatesOnlyWhenOverlapping == DuplicateIds => raced

C10_Witness ==
  /\ DuplicateIds
  /\ raced
  /\ Len(orders) = 2
  /\ orders[1].id = 1 /\ orders[2].id = 1

====
